---------------------------- MODULE Spec2Model ----------------------------
(***************************************************************************)
(* A model of estuary's database manager (dbmgr.go): the query builders    *)
(* over the relational store, the garbage collection of unreferenced       *)
(* Objects, the seeding of the miner registry at start-up, and the         *)
(* identifier codec (cidToBytes / bytesToCid).                             *)
(***************************************************************************)
EXTENDS Integers, Sequences, FiniteSets, TLC

(***************************************************************************)
(* Bounds of the model.                                                    *)
(***************************************************************************)
MaxByte == 3
MaxBytesLen == 5
\* rows ever inserted into contents and objects (auto-increment ids are not reused)
MaxContents == 2
MaxObjects == 3
\* rows obj_refs holds at one time
MaxObjRefs == 2
\* rows ever inserted into the deals table
MaxDeals == 1
\* rows ever inserted into users
MaxUsers == 3
\* the length of the default miner list
NumDefaultMiners == 3
\* runs of NewDBMgr
NumBoots == 2
\* distinct content addresses the callers use
NumCids == 3
\* concurrent ingests
NumIngests == 2
\* the length of a list handed to cidsToBytes or bytesToCids
MaxBatch == 3
\* the last instant of the clock that stamps created_at
MaxClock == 2
\* filter, sort and paging methods called on one builder
MaxChain == 2
\* rows of the tables the queries of SpecQuery run on
MaxRows == 3

(***************************************************************************)
(* IDENTIFIER CODEC                                                        *)
(*                                                                         *)
(* A byte is a number of 0..MaxByte, so every varint is one byte long.     *)
(* The binary layout is go-cid's, with the sizes scaled down: a CIDv0 is a *)
(* bare sha2-256 multihash <<code, length>> \o digest of a fixed length,   *)
(* a CIDv1 is <<1, codec, code, length>> \o digest.                        *)
(***************************************************************************)
Byte == 0 .. MaxByte

RECURSIVE SeqsUpTo(_)
SeqsUpTo(n) ==
    IF n = 0 THEN {<<>>}
    ELSE LET shorter == SeqsUpTo(n - 1)
         IN  shorter \cup {Append(s, b) : s \in {t \in shorter : Len(t) = n - 1}, b \in Byte}

ByteSeqs == SeqsUpTo(MaxBytesLen)

\* the version byte of a CIDv1
CidV1 == 1
\* the multihash code of sha2-256 (0x12 in go-multihash), scaled
SHA2_256 == 2
\* the digest length of sha2-256 (32 in go-multihash), scaled
Sha256Len == 2
\* the codec a CIDv0 implies (DagProtobuf), scaled
DagProtobuf == 0

nil == "nil"
ErrCast == "MalformedIdentifier"

\* gocid.Undef: the zero Cid
Undef == [version |-> 0, codec |-> 0, mhcode |-> 0, digest |-> <<>>]

\* the identifiers gocid can build: CIDv0 (sha2-256 only) and CIDv1
CidsV0 ==
    {[version |-> 0, codec |-> DagProtobuf, mhcode |-> SHA2_256, digest |-> d] :
        d \in {s \in ByteSeqs : Len(s) = Sha256Len}}

CidsV1 ==
    {[version |-> 1, codec |-> c, mhcode |-> h, digest |-> d] :
        c \in Byte, h \in Byte,
        d \in {s \in ByteSeqs : Len(s) + 4 <= MaxBytesLen /\ Len(s) <= MaxByte}}

ValidCids == CidsV0 \cup CidsV1

\* Cid.Bytes(): the binary form of an identifier; Undef has the empty one
Bytes(c) ==
    IF c = Undef THEN <<>>
    ELSE IF c.version = 0 THEN <<c.mhcode, Len(c.digest)>> \o c.digest
    ELSE <<CidV1, c.codec, c.mhcode, Len(c.digest)>> \o c.digest

\* gocid.CidFromBytes: [n |-> bytes read, cid, err]
CidFromBytes(data) ==
    IF Len(data) > 2 /\ data[1] = SHA2_256 /\ data[2] = Sha256Len
    THEN IF Len(data) < Sha256Len + 2
         THEN [n |-> 0, cid |-> Undef, err |-> ErrCast]
         ELSE [n |-> Sha256Len + 2,
               cid |-> [version |-> 0, codec |-> DagProtobuf, mhcode |-> SHA2_256,
                        digest |-> SubSeq(data, 3, Sha256Len + 2)],
               err |-> nil]
    ELSE IF Len(data) = 0 \/ data[1] # CidV1
         THEN [n |-> 0, cid |-> Undef, err |-> ErrCast]
    ELSE IF Len(data) < 4 \/ Len(data) - 4 < data[4]
         THEN [n |-> 0, cid |-> Undef, err |-> ErrCast]
    ELSE [n |-> 4 + data[4],
          cid |-> [version |-> 1, codec |-> data[2], mhcode |-> data[3],
                   digest |-> SubSeq(data, 5, 4 + data[4])],
          err |-> nil]

\* gocid.Cast: the whole buffer must be one identifier
Cast(data) ==
    LET r == CidFromBytes(data)
    IN  IF r.err # nil THEN [cid |-> Undef, err |-> r.err]
        ELSE IF r.n # Len(data) THEN [cid |-> Undef, err |-> ErrCast]
        ELSE [cid |-> r.cid, err |-> nil]

cidToBytes(cid) == Bytes(cid)

\* a bytesToCid that hands the empty column to Cast as well
bytesToCidNoEmptyCase(bytes) ==
    LET r == Cast(bytes)
    IN  IF r.err # nil THEN [cid |-> Undef, err |-> r.err]
        ELSE [cid |-> r.cid, err |-> nil]

bytesToCid(bytes) ==
    IF Len(bytes) = 0 THEN [cid |-> Undef, err |-> nil]
    ELSE LET r == Cast(bytes)
         IN  IF r.err # nil THEN [cid |-> Undef, err |-> r.err]
             ELSE [cid |-> r.cid, err |-> nil]

\* a bytesToCids that leaves out the elements it cannot decode
bytesToCidsSkipping(bytesList) ==
    LET ok == SelectSeq(bytesList, LAMBDA b : bytesToCid(b).err = nil)
    IN  [cids |-> [i \in DOMAIN ok |-> bytesToCid(ok[i]).cid], err |-> nil]

\* the loop of bytesToCids from element i on, cids being the identifiers
\* appended so far
RECURSIVE bytesToCidsLoop(_, _, _)
bytesToCidsLoop(bytesList, i, cids) ==
    IF i > Len(bytesList) THEN [cids |-> cids, err |-> nil]
    ELSE LET r == bytesToCid(bytesList[i])
         IN  IF r.err # nil THEN [cids |-> <<>>, err |-> r.err]
             ELSE bytesToCidsLoop(bytesList, i + 1, Append(cids, r.cid))

bytesToCids(bytesList) == bytesToCidsLoop(bytesList, 1, <<>>)

\* the loop of cidsToBytes
RECURSIVE cidsToBytesLoop(_, _, _)
cidsToBytesLoop(cids, i, bytesList) ==
    IF i > Len(cids) THEN bytesList
    ELSE cidsToBytesLoop(cids, i + 1, Append(bytesList, cidToBytes(cids[i])))

cidsToBytes(cids) == cidsToBytesLoop(cids, 1, <<>>)

(***************************************************************************)
(* STORAGE ENGINE AND QUERY BUILDERS                                       *)
(*                                                                         *)
(* A table is a set of rows (records). A builder is the *gorm.DB handle a  *)
(* query struct holds: the conditions added so far, all AND-combined.      *)
(* A statement either runs atomically or fails with the engine's error     *)
(* and changes nothing.                                                    *)
(***************************************************************************)
ErrEngine == "StorageEngineError"
ErrRecordNotFound == "NotFound"
ErrDanglingReference == "DanglingReference"
ErrContentInUse == "ContentInUse"

\* the error a statement reports: nil when the engine ran it
EngineErr(ok) == IF ok THEN nil ELSE ErrEngine

\* db.Model(&T{}) on the manager's handle: a new statement without
\* conditions, ordering or paging (<<>> is "not set")
NewQuery == [where |-> <<>>, order |-> <<>>, limit |-> <<>>, offset |-> <<>>]

\* q.DB = q.DB.Where("col = ?", val)
Where(q, col, val) == [q EXCEPT !.where = Append(@, [col |-> col, op |-> "=", val |-> val])]

\* q.DB = q.DB.Where("col IN ?", vals)
WhereIn(q, col, vals) == [q EXCEPT !.where = Append(@, [col |-> col, op |-> "in", val |-> vals])]

Holds(cond, row) ==
    IF cond.op = "=" THEN row[cond.col] = cond.val
    ELSE row[cond.col] \in cond.val

\* rows selected when one condition is enough
RowsAny(q, table) == {r \in table : \E i \in DOMAIN q.where : Holds(q.where[i], r)}

\* the rows of a table the builder's WHERE clause selects
Rows(q, table) == {r \in table : \A i \in DOMAIN q.where : Holds(q.where[i], r)}

\* q.DB = q.DB.Order("col ASC") or ("col DESC")
OrderBy(q, col, dir) == [q EXCEPT !.order = Append(@, [col |-> col, dir |-> dir])]

\* q.DB = q.DB.Limit(limit), q.DB = q.DB.Offset(offset)
Limit(q, limit) == [q EXCEPT !.limit = <<limit>>]
Offset(q, offset) == [q EXCEPT !.offset = <<offset>>]

\* ORDER BY: row x must come before row y
Before(x, y, order) ==
    \E k \in DOMAIN order :
        /\ \A j \in 1 .. k - 1 : x[order[j].col] = y[order[j].col]
        /\ IF order[k].dir = "ASC" THEN x[order[k].col] < y[order[k].col]
           ELSE x[order[k].col] > y[order[k].col]

\* the enumerations of a set of rows
Perms(rows) ==
    {s \in [1 .. Cardinality(rows) -> rows] : \A i, j \in DOMAIN s : i # j => s[i] # s[j]}

\* OFFSET and LIMIT of an ordered result
Page(s, q) ==
    LET from == IF q.offset = <<>> THEN 1 ELSE q.offset[1] + 1
        upto == IF q.limit = <<>> THEN Len(s)
                ELSE IF from + q.limit[1] - 1 < Len(s) THEN from + q.limit[1] - 1 ELSE Len(s)
    IN  SubSeq(s, from, upto)

\* the sequences a SELECT of the builder's statement may return: the selected
\* rows in an order the ORDER BY clause allows (any order between rows it
\* does not tell apart), one page of it
Find(q, table) ==
    {Page(s, q) : s \in {t \in Perms(Rows(q, table)) :
                            \A i, j \in DOMAIN t : i < j => ~Before(t[j], t[i], q.order)}}

NewObjectsQuery == NewQuery
NewObjRefsQuery == NewQuery
NewContentsQuery == NewQuery

\* a WithCid that adds no condition
ObjectsWithCidNoFilter(q, cid) == q

ObjectsWithCid(q, cid) == Where(q, "cid", cidToBytes(cid))
\* a WithPinID that adds no condition
ObjRefsWithPinIDNoFilter(q, pinID) == q

ObjRefsWithPinID(q, pinID) == Where(q, "pin", pinID)

NewDealsQuery == NewQuery
NewUsersQuery == NewQuery
UsersWithUsername(q, username) == Where(q, "username", username)
UsersWithID(q, id) == Where(q, "id", id)
ContentsWithID(q, id) == Where(q, "id", id)
ContentsWithActive(q, active) == Where(q, "active", active)
ContentsWithUserID(q, userID) == Where(q, "userID", userID)
ContentsWithAggregate(q, aggregate) == Where(q, "aggregate", aggregate)
ContentsWithAggregatedIn(q, contentID) == Where(q, "aggregatedIn", contentID)
ContentsWithCid(q, cid) == Where(q, "cid", cidToBytes(cid))
ContentsWithCids(q, cids) == WhereIn(q, "cid", {cidsToBytes(cids)[i] : i \in DOMAIN cids})
ContentsLimit(q, limit) == Limit(q, limit)
ContentsOffset(q, offset) == Offset(q, offset)

OrderDescending == 0
OrderAscending == 1

\* an OrderByCreationDate with the two directions exchanged
ContentsOrderByCreationDateSwapped(q, order) ==
    IF order = OrderDescending THEN OrderBy(q, "createdAt", "ASC")
    ELSE OrderBy(q, "createdAt", "DESC")

ContentsOrderByCreationDate(q, order) ==
    IF order = OrderDescending THEN OrderBy(q, "createdAt", "DESC")
    ELSE OrderBy(q, "createdAt", "ASC")

ContentsOrderByID(q, order) ==
    IF order = OrderDescending THEN OrderBy(q, "id", "DESC")
    ELSE OrderBy(q, "id", "ASC")

DealsWithContentID(q, contentID) == Where(q, "content", contentID)
DealsWithContentIDs(q, contentIDs) == WhereIn(q, "content", contentIDs)

\* the content addresses the callers of the model use
DbCids == {c \in CidsV0 : c.digest[1] = 0 /\ c.digest[2] < NumCids}

Ingests == 1 .. NumIngests

(***************************************************************************)
(* State.                                                                  *)
(***************************************************************************)
VARIABLES
    contents,       \* table contents: [id, createdAt, cid, userID, active, aggregate,
                    \* aggregatedIn]
    nextContentID,
    now,            \* the clock gorm reads for created_at
    objects,        \* table objects: [id, cid]
    nextObjectID,
    objrefs,        \* table obj_refs: [object, pin, nth]
    sweep,          \* the sweeper: [pc, cands, zero, linked]
    sweepRes,       \* the result of the sweeper's DELETE: [Error, RowsAffected]
    sweepRet,       \* what DeleteUnreferenced returned to the sweeper: [err]
    ingest,         \* per ingest: [pc, pin, cid, found, obj, conflict, err]
    deals,          \* table content_deals: [id, content]
    nextDealID,
    call,           \* the last terminal method called: [op, q, inUse], q its builder
    res,            \* the result of its statement: [Error, RowsAffected]
    ret,            \* what it returned: [err] or [val, err]
    users,          \* table users: [id, username]
    nextUserID,
    miners,         \* table storage_miners: the addresses, in insertion order
    boot,           \* per run of NewDBMgr: [pc, count, i, err]
    codecSrc,       \* the identifier last encoded, or None
    codecBuf,       \* the byte column the codec reads and writes
    codecOut,       \* the result of the last bytesToCid, or None
    batchSrc,       \* the identifiers last handed to cidsToBytes, or None
    batchBuf,       \* the list of byte columns the batch codec reads and writes
    batchOut,       \* the result of the last bytesToCids, or None
    stmt,           \* the statement each *gorm.DB handle holds
    slots           \* per builder a caller holds: [pc, h, declared, issued]

tableVars == <<contents, nextContentID, now, objects, nextObjectID, objrefs>>
dealVars == <<deals, nextDealID>>
callVars == <<call, res, ret>>
userVars == <<users, nextUserID>>
bootVars == <<miners, boot>>
sweepVars == <<sweep, sweepRes, sweepRet>>
batchVars == <<batchSrc, batchBuf, batchOut>>
codecVars == <<codecSrc, codecBuf, codecOut, batchVars>>
builderVars == <<stmt, slots>>

vars == <<tableVars, dealVars, callVars, userVars, bootVars, sweepVars, ingest, codecVars,
          builderVars>>

\* an optional value is a sequence of at most one element
None == <<>>
Some(v) == <<v>>

NoRes == [Error |-> nil, RowsAffected |-> 0]
IdleSweep == [pc |-> "idle", cands |-> {}, zero |-> {}, linked |-> {}]
IdleIngest == [pc |-> "idle", pin |-> 0, cid |-> Undef, found |-> FALSE, obj |-> 0,
               conflict |-> FALSE, err |-> nil]

Boots == 1 .. NumBoots
IdleBoot == [pc |-> "idle", count |-> 0, i |-> 0, err |-> nil]

NoCall == [op |-> "none", q |-> NewQuery, inUse |-> FALSE]

\* the handle gorm.Open returned, which DBMgr keeps
BaseHandle == "mgr.DB"
\* the builders two callers hold
Builders == {"first", "second"}
NoBuilder == [pc |-> "none", h |-> BaseHandle, declared |-> <<>>, issued |-> 0]

BuildersIdle ==
    /\ stmt = [h \in {BaseHandle} \cup Builders |-> NewQuery]
    /\ slots = [b \in Builders |-> NoBuilder]

ContentsInit ==
    /\ contents = {}
    /\ nextContentID = 1
    /\ now = 0

OtherTablesInit ==
    /\ objects = {}
    /\ nextObjectID = 1
    /\ objrefs = {}
    /\ deals = {}
    /\ nextDealID = 1
    /\ call = NoCall
    /\ res = NoRes
    /\ ret = [err |-> nil]
    /\ users = {}
    /\ nextUserID = 1
    /\ miners = <<>>
    /\ boot = [b \in Boots |-> IdleBoot]

TablesInit == ContentsInit /\ OtherTablesInit

SweepIdle ==
    /\ sweep = IdleSweep
    /\ sweepRes = NoRes
    /\ sweepRet = [err |-> nil]

IngestIdle == ingest = [p \in Ingests |-> IdleIngest]

BatchIdle ==
    /\ batchSrc = None
    /\ batchBuf = <<>>
    /\ batchOut = None

CodecIdle ==
    /\ codecSrc = None
    /\ codecBuf = <<>>
    /\ codecOut = None
    /\ BatchIdle

(***************************************************************************)
(* CONTENTS                                                                *)
(***************************************************************************)
\* a Content as its creator fills it: no address yet, not aggregated
PlainContent == [cid |-> <<>>, userID |-> 1, active |-> TRUE, aggregate |-> FALSE,
                 aggregatedIn |-> 0]

WithRowID(row, id) == [f \in DOMAIN row \cup {"id"} |-> IF f = "id" THEN id ELSE row[f]]

\* gorm stamps every row of one Create with the statement's time
WithCreatedAt(row, t) ==
    [f \in DOMAIN row \cup {"createdAt"} |-> IF f = "createdAt" THEN t ELSE row[f]]

\* the rows the INSERT of CreateAll writes, ids assigned in order
CreateAll(batch) ==
    {WithCreatedAt(WithRowID(batch[i], nextContentID + i - 1), now) : i \in DOMAIN batch}

\* an insertion row by row that stops at the first element the engine rejects
CreateAllRowByRow(batch, rejected) ==
    {r \in CreateAll(batch) : \A i \in rejected : r.id < nextContentID + i - 1}

\* q.DB.Create(&contents) on a handle without default transactions and
\* without a batch size: one INSERT statement for the whole slice, which the
\* engine runs as a whole or, an element being rejected, not at all
CreateAllStatement(batch, rejected) == IF rejected = {} THEN CreateAll(batch) ELSE {}

\* ContentsQuery.CreateAll; rejected are the positions of the elements the
\* engine refuses to insert
CreateAllCall(batch, rejected) ==
    /\ nextContentID + Len(batch) - 1 <= MaxContents
    /\ LET new == CreateAllStatement(batch, rejected)
       IN  /\ contents' = contents \cup new
           /\ nextContentID' = nextContentID + Cardinality(new)
           /\ res' = [Error |-> EngineErr(rejected = {}), RowsAffected |-> Cardinality(new)]
    /\ call' = [op |-> "Contents.CreateAll", q |-> NewContentsQuery, inUse |-> FALSE,
                batch |-> batch, rejected |-> rejected]
    /\ ret' = [err |-> res'.Error]

\* Contents().CreateAll(batch)
ContentsCreateAll(batch, rejected) ==
    /\ CreateAllCall(batch, rejected)
    /\ UNCHANGED <<now, objects, nextObjectID, objrefs, dealVars, sweepVars, ingest,
                   userVars, bootVars, codecVars, builderVars>>

(***************************************************************************)
(* OBJECTS AND OBJ REFS                                                    *)
(*                                                                         *)
(* dbmgr.go never reads the id of an ObjRef, so a row of obj_refs is named *)
(* by its object, its pin and its rank among the rows with the same two.   *)
(***************************************************************************)
\* ObjectsQuery.Count
ObjectsCount(q) == Cardinality(Rows(q, objects))

\* ObjectsQuery.Exists
ObjectsExists(q) == ObjectsCount(q) > 0

\* the subquery of DeleteUnreferenced: SELECT count(1) FROM obj_refs WHERE object = objects.id
RefCount(o) == Cardinality({r \in objrefs : r.object = o.id})

\* a sweep whose DELETE has no reference-count condition
DeleteUnreferencedNoGuard(q, ids) == {o \in Rows(q, objects) : o.id \in ids}

\* a sweep whose DELETE has no "id in ?" condition
DeleteUnreferencedAnyID(q, ids) == {o \in Rows(q, objects) : RefCount(o) = 0}

\* ObjectsQuery.DeleteUnreferenced: the rows its one DELETE statement removes
DeleteUnreferenced(q, ids) == {o \in Rows(q, objects) : RefCount(o) = 0 /\ o.id \in ids}

\* ObjRefsQuery.Delete: the rows its DELETE statement removes
ObjRefsDelete(q) == Rows(q, objrefs)

\* the uniqueness constraint on the address column of objects
UniqueViolation(cid) == \E o \in objects : o.cid = cidToBytes(cid)

\* The sweep never reads an address, so the callers of Spec take the first
\* address that no Object holds (an address that is held creates nothing).
FirstFreeCid ==
    LET free == {c \in DbCids : ~UniqueViolation(c)}
    IN  IF free = {} THEN Undef
        ELSE CHOOSE c \in free : \A d \in free : c.digest[2] <= d.digest[2]

\* findOrCreate(address): one INSERT with a conflict policy
FindOrCreate(cid) ==
    /\ ~UniqueViolation(cid)
    /\ nextObjectID <= MaxObjects
    /\ objects' = objects \cup {[id |-> nextObjectID, cid |-> cidToBytes(cid)]}
    /\ nextObjectID' = nextObjectID + 1
    /\ UNCHANGED <<contents, nextContentID, now, objrefs, dealVars, callVars, sweepVars,
                   ingest, userVars, bootVars, codecVars, builderVars>>

\* link(object, content): the ObjRef rows one INSERT adds; the engine rejects
\* it (DanglingReference) when the Object or the Content is gone
Link(object, pin) ==
    IF (\E o \in objects : o.id = object) /\ (\E c \in contents : c.id = pin)
    THEN {[object |-> object, pin |-> pin,
           nth |-> 1 + Cardinality({r \in objrefs : r.object = object /\ r.pin = pin})]}
    ELSE {}

LinkObject(object, pin) ==
    /\ Cardinality(objrefs) < MaxObjRefs
    /\ objrefs' = objrefs \cup Link(object, pin)
    /\ sweep' = IF sweep.pc = "selected" /\ object \in sweep.zero /\ Link(object, pin) # {}
                THEN [sweep EXCEPT !.linked = @ \cup {object}]
                ELSE sweep
    /\ UNCHANGED <<contents, nextContentID, now, objects, nextObjectID, dealVars, callVars,
                   sweepRes, sweepRet, ingest, userVars, bootVars, codecVars, builderVars>>

\* unlinkAll(pin): ObjRefs().WithPinID(pin).Delete()
UnlinkAll(pin) ==
    /\ objrefs' = objrefs \ ObjRefsDelete(ObjRefsWithPinID(NewObjRefsQuery, pin))
    /\ objrefs' # objrefs
    /\ sweep' = [sweep EXCEPT !.linked = {id \in @ : \E r \in objrefs' : r.object = id}]
    /\ UNCHANGED <<contents, nextContentID, now, objects, nextObjectID, dealVars, callVars,
                   sweepRes, sweepRet, ingest, userVars, bootVars, codecVars, builderVars>>

\* the sweeper's caller picks candidate ids among the rows of objects
SweepSelect(ids) ==
    /\ sweep.pc # "selected"
    /\ sweep' = [pc |-> "selected", cands |-> ids,
                 zero |-> {o.id : o \in {x \in objects : x.id \in ids /\ RefCount(x) = 0}},
                 linked |-> {}]
    /\ sweepRes' = NoRes
    /\ sweepRet' = [err |-> nil]
    /\ UNCHANGED <<tableVars, dealVars, callVars, ingest, userVars, bootVars, codecVars,
                   builderVars>>

\* sweepUnreferenced: Objects().DeleteUnreferenced(candidates) returns the
\* statement's Error and nothing else
SweepDelete(ok) ==
    /\ sweep.pc = "selected"
    /\ sweep' = [sweep EXCEPT !.pc = "done", !.zero = {}]
    /\ LET gone == IF ok THEN DeleteUnreferenced(NewObjectsQuery, sweep.cands) ELSE {}
       IN  /\ objects' = objects \ gone
           /\ sweepRes' = [Error |-> EngineErr(ok), RowsAffected |-> Cardinality(gone)]
           /\ sweepRet' = [err |-> sweepRes'.Error]
    /\ UNCHANGED <<contents, nextContentID, now, nextObjectID, objrefs, dealVars, callVars,
                   ingest, userVars, bootVars, codecVars, builderVars>>

Init == TablesInit /\ SweepIdle /\ IngestIdle /\ CodecIdle /\ BuildersIdle

Next ==
    \/ ContentsCreateAll(<<PlainContent>>, {})
    \/ \E cid \in DbCids : cid = FirstFreeCid /\ FindOrCreate(cid)
    \/ \E o \in 1 .. MaxObjects, c \in contents : LinkObject(o, c.id)
    \/ \E c \in contents : UnlinkAll(c.id)
    \/ \E ids \in SUBSET {o.id : o \in objects} : SweepSelect(ids)
    \/ \E ok \in BOOLEAN : SweepDelete(ok)

Spec == Init /\ [][Next]_vars

(***************************************************************************)
(* PROPERTIES OF THE GARBAGE COLLECTION (under Spec)                       *)
(***************************************************************************)
\* the step in which DeleteUnreferenced runs its statement
SweepDeleteStep == sweep.pc = "selected" /\ sweep'.pc = "done"

\* C1: GC safety. No step of DeleteUnreferenced removes an Object that an
\* ObjRef names at the moment of the delete, and in every state reached by
\* links, unlinks and sweeps every ObjRef names an Object row that exists.
C1_NoDanglingObjRef ==
    /\ [](\A r \in objrefs : \E o \in objects : o.id = r.object)
    /\ [][SweepDeleteStep =>
            \A o \in objects \ objects' : ~\E r \in objrefs : r.object = o.id]_vars

\* a sweep has deleted a candidate and left another one, which is referenced
C1_Witness ==
    /\ sweep.pc = "done"
    /\ sweepRes.RowsAffected > 0
    /\ \E r \in objrefs : r.object \in sweep.cands

\* C2: a candidate that had no ObjRef when the candidates were selected and
\* was linked before DeleteUnreferenced ran its delete (the new ObjRef still
\* there) is not deleted, and the new ObjRef names an existing Object.
C2_LinkBeforeDeleteKeepsObject ==
    \A id \in sweep.linked :
        /\ \E o \in objects : o.id = id
        /\ \E r \in objrefs : r.object = id

\* a sweep ran its delete after a link to one of its unreferenced candidates
C2_Witness ==
    /\ sweep.pc = "done"
    /\ sweepRes.Error = nil
    /\ sweep.linked # {}

\* C3: a DeleteUnreferenced(ids) the engine runs removes exactly the Objects
\* whose id is in ids and that no ObjRef names; every other Object stays.
C3_DeletesExactlyUnreferencedCandidates ==
    [][(SweepDeleteStep /\ sweepRes'.Error = nil) =>
         objects' = objects \ {o \in objects :
                                 /\ o.id \in sweep.cands
                                 /\ ~\E r \in objrefs : r.object = o.id}]_vars

\* a sweep deleted a candidate, kept a referenced candidate and kept an
\* unreferenced Object that was no candidate
C3_Witness ==
    /\ sweep.pc = "done"
    /\ sweepRes.RowsAffected > 0
    /\ \E o \in objects : o.id \in sweep.cands /\ RefCount(o) > 0
    /\ \E o \in objects : o.id \notin sweep.cands /\ RefCount(o) = 0

\* no Object qualifies for the sweeper's candidates
NoneQualifies == \A o \in objects : o.id \in sweep.cands => RefCount(o) > 0

\* C4 as claimed: the sweep hands its caller the number of Objects it deleted.
C4_ReturnsDeletedCount ==
    sweep.pc = "done" =>
        "count" \in DOMAIN sweepRet /\ sweepRet.count = sweepRes.RowsAffected

\* C4 as amended: DeleteUnreferenced returns the statement's error and nothing
\* else (the number of rows deleted stays in the statement's result); a sweep
\* in which no candidate qualifies changes no row and returns a nil error
\* unless the engine itself failed.
C4_ReturnsOnlyError ==
    [][SweepDeleteStep =>
         /\ DOMAIN sweepRet' = {"err"}
         /\ sweepRet'.err = sweepRes'.Error
         /\ NoneQualifies =>
              /\ objects' = objects
              /\ sweepRes'.RowsAffected = 0
              /\ sweepRet'.err \in {nil, ErrEngine}]_vars

\* a sweep whose candidates were all referenced returned nil
C4_Witness ==
    /\ sweep.pc = "done"
    /\ sweepRet.err = nil
    /\ sweepRes.RowsAffected = 0
    /\ \E o \in objects : o.id \in sweep.cands

(***************************************************************************)
(* INGEST: a caller that stores one block of a Content item. It asks       *)
(* Objects().WithCid(cid).Exists(), creates the Object when none was       *)
(* found, and links the Object to the Content.                             *)
(***************************************************************************)
IngestStart(p, pin, cid) ==
    /\ ingest[p].pc = "idle"
    /\ ingest' = [ingest EXCEPT ![p] = [IdleIngest EXCEPT !.pc = "exists", !.pin = pin,
                                                           !.cid = cid]]
    /\ UNCHANGED <<tableVars, dealVars, callVars, sweepVars, userVars, bootVars, codecVars,
                   builderVars>>

\* Objects().WithCid(cid).Exists(); the ingest gives up on an error
IngestExists(p, ok) ==
    /\ ingest[p].pc = "exists"
    /\ ingest' = [ingest EXCEPT ![p] =
                    IF ok
                    THEN [@ EXCEPT !.pc = "create",
                                   !.found = ObjectsExists(ObjectsWithCid(NewObjectsQuery,
                                                                           ingest[p].cid))]
                    ELSE [@ EXCEPT !.pc = "done", !.err = ErrEngine]]
    /\ UNCHANGED <<tableVars, dealVars, callVars, sweepVars, userVars, bootVars, codecVars,
                   builderVars>>

\* findOrCreate after the check: an ingest that found the address takes the
\* row; one that did not inserts, and when the uniqueness constraint rejects
\* the insert (another ingest was faster) it takes the row that is there
IngestFindOrCreate(p) ==
    /\ ingest[p].pc = "create"
    /\ LET cid == ingest[p].cid
           rows == Rows(ObjectsWithCid(NewObjectsQuery, cid), objects)
           row == CHOOSE o \in rows : TRUE
       IN  IF ~ingest[p].found /\ ~UniqueViolation(cid)
           THEN /\ nextObjectID <= MaxObjects
                /\ objects' = objects \cup {[id |-> nextObjectID, cid |-> cidToBytes(cid)]}
                /\ nextObjectID' = nextObjectID + 1
                /\ ingest' = [ingest EXCEPT ![p].pc = "link", ![p].obj = nextObjectID]
           ELSE /\ ingest' = [ingest EXCEPT ![p].pc = "link",
                                            ![p].obj = IF rows = {} THEN 0 ELSE row.id,
                                            ![p].conflict = ~ingest[p].found]
                /\ UNCHANGED <<objects, nextObjectID>>
    /\ UNCHANGED <<contents, nextContentID, now, objrefs, dealVars, callVars, sweepVars,
                   userVars, bootVars, codecVars, builderVars>>

\* link(object, content)
IngestLink(p) ==
    /\ ingest[p].pc = "link"
    /\ LET new == Link(ingest[p].obj, ingest[p].pin)
       IN  /\ objrefs' = objrefs \cup new
           /\ ingest' = [ingest EXCEPT ![p].pc = "done",
                                       ![p].err = IF new = {} THEN ErrDanglingReference
                                                  ELSE nil]
    /\ UNCHANGED <<contents, nextContentID, now, objects, nextObjectID, dealVars, callVars,
                   sweepVars, userVars, bootVars, codecVars, builderVars>>

IngestNext ==
    \/ ContentsCreateAll(<<PlainContent>>, {})
    \/ \E p \in Ingests, c \in contents, cid \in DbCids : IngestStart(p, c.id, cid)
    \/ \E p \in Ingests, ok \in BOOLEAN : IngestExists(p, ok)
    \/ \E p \in Ingests : IngestFindOrCreate(p)
    \/ \E p \in Ingests : IngestLink(p)

SpecIngest == Init /\ [][IngestNext]_vars

\* the ingests of address cid that linked their Content item
Linked(cid) == {p \in Ingests : ingest[p].pc = "done" /\ ingest[p].err = nil
                                /\ ingest[p].cid = cid}

\* C5: deduplication. There is at most one Object row per content address,
\* also when concurrent ingests of one address each saw no Object and then
\* created; the Content items ingested for an address share that one Object,
\* with one ObjRef row each.
C5_OneObjectPerAddress ==
    /\ \A o1 \in objects, o2 \in objects : o1.cid = o2.cid => o1 = o2
    /\ \A cid \in DbCids :
         Linked(cid) # {} =>
           \E o \in objects :
              /\ o.cid = cidToBytes(cid)
              /\ \A p \in Linked(cid) :
                   \E r \in objrefs : r.object = o.id /\ r.pin = ingest[p].pin
              /\ Cardinality({r \in objrefs : r.object = o.id}) = Cardinality(Linked(cid))

\* two ingests of one address for two Content items both saw no Object, and
\* both linked: the second insert met the uniqueness constraint
C5_Witness ==
    \E p \in Ingests, q \in Ingests :
        /\ p # q
        /\ q \in Linked(ingest[p].cid) /\ p \in Linked(ingest[p].cid)
        /\ ingest[p].pin # ingest[q].pin
        /\ ~ingest[p].found /\ ~ingest[q].found
        /\ ingest[q].conflict
        /\ Cardinality(objects) = 1 /\ Cardinality(objrefs) = 2

(***************************************************************************)
(* CONTENTS AND DEALS: the terminal methods, each one statement. call is   *)
(* the method and its argument, res the statement's result, ret what the   *)
(* method hands back.                                                      *)
(***************************************************************************)
\* a Deal or an ObjRef references Content id
InUse(id) == (\E d \in deals : d.content = id) \/ (\E r \in objrefs : r.pin = id)

\* ContentsQuery.Delete: the rows its DELETE statement removes
ContentsDeleteRows(q) == Rows(q, contents)

\* ContentsQuery.Delete on a builder whose statement is q
DeleteCall(q, ok) ==
    /\ LET gone == IF ok THEN ContentsDeleteRows(q) ELSE {}
       IN  /\ contents' = contents \ gone
           /\ res' = [Error |-> EngineErr(ok), RowsAffected |-> Cardinality(gone)]
    /\ call' = [op |-> "Contents.Delete", q |-> q,
                inUse |-> \E i \in DOMAIN q.where : q.where[i].col = "id" /\ InUse(q.where[i].val)]
    /\ ret' = [err |-> res'.Error]

\* Contents().WithID(id).Delete()
ContentsDelete(id, ok) ==
    /\ DeleteCall(ContentsWithID(NewContentsQuery, id), ok)
    /\ UNCHANGED <<nextContentID, now, objects, nextObjectID, objrefs, dealVars, sweepVars,
                   ingest, userVars, bootVars, codecVars, builderVars>>

\* ContentsQuery.GetAll on a builder whose statement is q: an error of Find
\* is answered with (nil, nil)
GetAllCall(q, ok) ==
    /\ call' = [op |-> "Contents.GetAll", q |-> q, inUse |-> FALSE]
    /\ \E found \in Find(q, contents) :
          /\ res' = [Error |-> EngineErr(ok), RowsAffected |-> IF ok THEN Len(found) ELSE 0]
          /\ ret' = IF res'.Error # nil THEN [val |-> <<>>, err |-> nil]
                    ELSE [val |-> found, err |-> nil]

\* Contents()...GetAll()
ContentsGetAll(q, ok) ==
    /\ GetAllCall(q, ok)
    /\ UNCHANGED <<tableVars, dealVars, sweepVars, ingest, userVars, bootVars, codecVars,
                   builderVars>>

\* DealsQuery.GetAll
DealsGetAll(q, ok) ==
    /\ call' = [op |-> "Deals.GetAll", q |-> q, inUse |-> FALSE]
    /\ \E found \in Find(q, deals) :
          /\ res' = [Error |-> EngineErr(ok), RowsAffected |-> IF ok THEN Len(found) ELSE 0]
          /\ ret' = IF res'.Error # nil THEN [val |-> <<>>, err |-> res'.Error]
                    ELSE [val |-> found, err |-> nil]
    /\ UNCHANGED <<tableVars, dealVars, sweepVars, ingest, userVars, bootVars, codecVars,
                   builderVars>>

\* the deal-negotiation collaborator records a Deal for a Content item
DealCreate(content) ==
    /\ nextDealID <= MaxDeals
    /\ deals' = deals \cup {[id |-> nextDealID, content |-> content]}
    /\ nextDealID' = nextDealID + 1
    /\ UNCHANGED <<tableVars, callVars, sweepVars, ingest, userVars, bootVars, codecVars,
                   builderVars>>

ContentsNext ==
    \/ \E rejected \in SUBSET {1} : ContentsCreateAll(<<PlainContent>>, rejected)
    \/ \E id \in 1 .. MaxContents, ok \in BOOLEAN : ContentsDelete(id, ok)
    \/ \E q \in {NewContentsQuery} \cup {ContentsWithID(NewContentsQuery, id) : id \in 1 .. MaxContents},
          ok \in BOOLEAN : ContentsGetAll(q, ok)
    \/ \E q \in {NewDealsQuery} \cup {DealsWithContentID(NewDealsQuery, id) : id \in 1 .. MaxContents},
          ok \in BOOLEAN : DealsGetAll(q, ok)
    \/ \E c \in contents : DealCreate(c.id)
    \/ \E cid \in DbCids : cid = FirstFreeCid /\ FindOrCreate(cid)
    \/ \E o \in objects, c \in contents : LinkObject(o.id, c.id)
    \/ \E c \in contents : UnlinkAll(c.id)

SpecContents == Init /\ [][ContentsNext]_vars

\* C6: the hard-delete guard. Contents().WithID(c).Delete() called while a
\* Deal or an ObjRef references c fails with ContentInUse and leaves the row;
\* called when none references c, it succeeds and removes the row.
C6_HardDeleteGuard ==
    (call.op = "Contents.Delete" /\ res.Error = nil) =>
        IF call.inUse
        THEN ret.err = ErrContentInUse /\ Rows(call.q, contents) # {}
        ELSE ret.err = nil /\ Rows(call.q, contents) = {}

\* C8: a terminal method whose statement got an error from the storage engine
\* returns that error; a fetch-all returns an empty sequence with a nil error
\* only when its query ran.
C8_ErrorsPropagate ==
    /\ res.Error # nil => ret.err = res.Error
    /\ (call.op \in {"Contents.GetAll", "Deals.GetAll"} /\ ret.err = nil /\ ret.val = <<>>) =>
          res.Error = nil

(***************************************************************************)
(* THE CATALOGUE: batches of Content items, among them aggregates and      *)
(* their children, created and deleted while the clock runs.               *)
(***************************************************************************)
\* a Content that aggregates others
AggregateContent == [PlainContent EXCEPT !.aggregate = TRUE]

\* a Content that names Content parent as the aggregate it is part of
ChildOf(parent) == [PlainContent EXCEPT !.aggregatedIn = parent]

CatalogRows == {PlainContent, AggregateContent} \cup {ChildOf(p) : p \in 1 .. MaxContents}

\* the slices handed to CreateAll
Batches == UNION {[1 .. n -> CatalogRows] : n \in 1 .. MaxContents}

\* time passes
Tick ==
    /\ now < MaxClock
    /\ now' = now + 1
    /\ UNCHANGED <<contents, nextContentID, objects, nextObjectID, objrefs, dealVars,
                   callVars, sweepVars, ingest, userVars, bootVars, codecVars, builderVars>>

CatalogNext ==
    \/ \E batch \in Batches : \E rejected \in SUBSET DOMAIN batch :
          ContentsCreateAll(batch, rejected)
    \/ \E id \in 1 .. MaxContents, ok \in BOOLEAN : ContentsDelete(id, ok)
    \/ Tick

SpecCatalog == Init /\ [][CatalogNext]_vars

\* the step of a CreateAll
CreateAllStep == call'.op = "Contents.CreateAll" /\ now' = now

\* C12: CreateAll is all-or-nothing. When the insertion of an element of the
\* batch fails the call returns an error and no row of the batch exists
\* afterwards; otherwise it returns nil and every element is a new row.
C12_CreateAllAllOrNothing ==
    [][CreateAllStep =>
         LET batch == call'.batch
             new == contents' \ contents
         IN  IF call'.rejected # {}
             THEN ret'.err # nil /\ contents' = contents
             ELSE /\ ret'.err = nil
                  /\ contents \subseteq contents'
                  /\ Cardinality(new) = Len(batch)
                  /\ \A i \in DOMAIN batch :
                       \E r \in new : \A f \in DOMAIN batch[i] : r[f] = batch[i][f]]_vars

\* the engine refused the second of two elements and the table is still empty
C12_Witness ==
    /\ call.op = "Contents.CreateAll"
    /\ Len(call.batch) = 2 /\ call.rejected = {2}
    /\ ret.err # nil
    /\ contents = {} /\ nextContentID = 1

\* C13: the aggregation invariant. Every Content whose aggregatedIn is set
\* names an existing Content whose aggregate flag is true.
C13_AggregatedInNamesAggregate ==
    \A c \in contents :
        c.aggregatedIn # 0 => \E a \in contents : a.id = c.aggregatedIn /\ a.aggregate

(***************************************************************************)
(* BUILDERS: a caller obtains a builder from the manager, calls filter,    *)
(* sort and paging methods on it, and then one terminal method. A builder  *)
(* is a handle; the statement it has accumulated is stmt[handle].          *)
(***************************************************************************)
\* a db.Model that hands out the handle it was called on
ModelSameHandle(db, fresh) == db

\* db.Model(&Content{}) called on the handle gorm.Open returned: a new handle
Model(db, fresh) == fresh

\* a method table in which every method runs a statement
IssuedByEager(method) == 1

\* the statements a method of ContentsQuery sends to the engine: one by
\* each of CreateAll, Get, GetAll, Count and Delete, none by the others
IssuedBy(method) ==
    IF method \in {"CreateAll", "Get", "GetAll", "Count", "Delete"} THEN 1 ELSE 0

\* the filter, sort and paging methods, called with argument f.arg
Apply(f, q) ==
    CASE f.m = "WithID" -> ContentsWithID(q, f.arg)
      [] f.m = "WithActive" -> ContentsWithActive(q, f.arg)
      [] f.m = "WithUserID" -> ContentsWithUserID(q, f.arg)
      [] f.m = "WithCid" -> ContentsWithCid(q, f.arg)
      [] f.m = "WithCids" -> ContentsWithCids(q, f.arg)
      [] f.m = "WithAggregate" -> ContentsWithAggregate(q, f.arg)
      [] f.m = "WithAggregatedIn" -> ContentsWithAggregatedIn(q, f.arg)
      [] f.m = "Limit" -> ContentsLimit(q, f.arg)
      [] f.m = "Offset" -> ContentsOffset(q, f.arg)
      [] f.m = "OrderByCreationDate" -> ContentsOrderByCreationDate(q, f.arg)
      [] f.m = "OrderByID" -> ContentsOrderByID(q, f.arg)

\* mgr.Contents(): NewContentsQuery(mgr.DB); the statement of the new handle
\* starts from the one of mgr.DB. The caller has done with the result of the
\* call before.
MgrContents(b) ==
    /\ slots[b].pc \in {"none", "done"}
    /\ LET h == Model(BaseHandle, b)
       IN  /\ stmt' = [stmt EXCEPT ![h] = stmt[BaseHandle]]
           /\ slots' = [slots EXCEPT ![b] = [pc |-> "built", h |-> h, declared |-> <<>>,
                                             issued |-> 0]]
    /\ call' = NoCall /\ res' = NoRes /\ ret' = [err |-> nil]
    /\ UNCHANGED <<tableVars, dealVars, userVars, bootVars, sweepVars, ingest, codecVars>>

\* q.DB = q.DB.<method>(arg); return q
Chain(b, f) ==
    /\ slots[b].pc = "built"
    /\ Len(slots[b].declared) < MaxChain
    /\ stmt' = [stmt EXCEPT ![slots[b].h] = Apply(f, @)]
    /\ slots' = [slots EXCEPT ![b].declared = Append(@, f),
                              ![b].issued = @ + IssuedBy(f.m)]
    /\ UNCHANGED <<tableVars, dealVars, callVars, userVars, bootVars, sweepVars, ingest,
                   codecVars>>

\* the terminal method has returned to the caller of builder b
Returned(b, method) ==
    slots' = [slots EXCEPT ![b].pc = "done", ![b].issued = @ + IssuedBy(method)]

BuilderGetAll(b, ok) ==
    /\ slots[b].pc = "built"
    /\ GetAllCall(stmt[slots[b].h], ok)
    /\ Returned(b, "GetAll")
    /\ UNCHANGED <<tableVars, stmt, dealVars, userVars, bootVars, sweepVars, ingest, codecVars>>

\* ContentsQuery.Count
CountCall(q, ok) ==
    /\ call' = [op |-> "Contents.Count", q |-> q, inUse |-> FALSE]
    /\ res' = [Error |-> EngineErr(ok), RowsAffected |-> 0]
    /\ ret' = IF res'.Error # nil THEN [val |-> 0, err |-> res'.Error]
              ELSE [val |-> Cardinality(Rows(q, contents)), err |-> nil]

\* Count on a builder without paging
BuilderCount(b, ok) ==
    /\ slots[b].pc = "built"
    /\ stmt[slots[b].h].limit = <<>> /\ stmt[slots[b].h].offset = <<>>
    /\ CountCall(stmt[slots[b].h], ok)
    /\ Returned(b, "Count")
    /\ UNCHANGED <<tableVars, stmt, dealVars, userVars, bootVars, sweepVars, ingest, codecVars>>

\* ContentsQuery.Get: Take selects with LIMIT 1 and reports NotFound when no
\* row comes back
GetCall(q, ok) ==
    /\ call' = [op |-> "Contents.Get", q |-> q, inUse |-> FALSE]
    /\ \E found \in Find(Limit(q, 1), contents) :
          /\ res' = [Error |-> IF ~ok THEN ErrEngine
                               ELSE IF found = <<>> THEN ErrRecordNotFound ELSE nil,
                     RowsAffected |-> IF ok THEN Len(found) ELSE 0]
          /\ ret' = IF res'.Error # nil THEN [val |-> <<>>, err |-> res'.Error]
                    ELSE [val |-> found, err |-> nil]

BuilderGet(b, ok) ==
    /\ slots[b].pc = "built"
    /\ GetCall(stmt[slots[b].h], ok)
    /\ Returned(b, "Get")
    /\ UNCHANGED <<tableVars, stmt, dealVars, userVars, bootVars, sweepVars, ingest, codecVars>>

\* Delete on a builder that has conditions and no ordering or paging
BuilderDelete(b, ok) ==
    /\ slots[b].pc = "built"
    /\ stmt[slots[b].h].where # <<>> /\ stmt[slots[b].h].order = <<>>
    /\ stmt[slots[b].h].limit = <<>> /\ stmt[slots[b].h].offset = <<>>
    /\ DeleteCall(stmt[slots[b].h], ok)
    /\ Returned(b, "Delete")
    /\ UNCHANGED <<nextContentID, now, objects, nextObjectID, objrefs, stmt, dealVars, userVars,
                   bootVars, sweepVars, ingest, codecVars>>

BuilderCreateAll(b, batch, rejected) ==
    /\ slots[b].pc = "built"
    /\ CreateAllCall(batch, rejected)
    /\ Returned(b, "CreateAll")
    /\ UNCHANGED <<now, objects, nextObjectID, objrefs, stmt, dealVars, userVars, bootVars,
                   sweepVars, ingest, codecVars>>

\* the methods the caller of SpecBuilder chains: filters, a sort, paging
BuilderMethods ==
    {[m |-> "WithID", arg |-> i] : i \in 1 .. MaxContents}
        \cup {[m |-> "OrderByID", arg |-> OrderDescending],
              [m |-> "Limit", arg |-> 1], [m |-> "Offset", arg |-> 1]}

BuilderNext ==
    \/ MgrContents("first")
    \/ \E f \in BuilderMethods : Chain("first", f)
    \/ \E ok \in BOOLEAN : BuilderGetAll("first", ok)
    \/ \E ok \in BOOLEAN : BuilderCount("first", ok)
    \/ \E ok \in BOOLEAN : BuilderGet("first", ok)
    \/ \E ok \in BOOLEAN : BuilderDelete("first", ok)
    \/ \E rejected \in SUBSET {1} : BuilderCreateAll("first", <<PlainContent>>, rejected)

SpecBuilder == Init /\ [][BuilderNext]_vars

ObjRefsQueryDelete(pin, ok) ==
    LET q == ObjRefsWithPinID(NewObjRefsQuery, pin)
        gone == IF ok THEN ObjRefsDelete(q) ELSE {}
    IN  /\ objrefs' = objrefs \ gone
        /\ sweep' = [sweep EXCEPT !.linked = {id \in @ : \E r \in objrefs' : r.object = id}]
        /\ call' = [op |-> "ObjRefs.Delete", q |-> q, inUse |-> FALSE, pin |-> pin]
        /\ res' = [Error |-> EngineErr(ok), RowsAffected |-> Cardinality(gone)]
        /\ ret' = [err |-> res'.Error]
        /\ UNCHANGED <<contents, nextContentID, now, objects, nextObjectID, dealVars,
                       sweepRes, sweepRet, ingest, userVars, bootVars, codecVars, builderVars>>

UnlinkNext ==
    \/ ContentsCreateAll(<<PlainContent>>, {})
    \/ \E cid \in DbCids : cid = FirstFreeCid /\ FindOrCreate(cid)
    \/ \E o \in objects, c \in contents : LinkObject(o.id, c.id)
    \/ \E c \in contents, ok \in BOOLEAN : ObjRefsQueryDelete(c.id, ok)

SpecUnlink == Init /\ [][UnlinkNext]_vars

\* the step in which ObjRefsQuery.Delete runs its statement: every other step
\* of SpecUnlink advances an id counter or adds an ObjRef
ObjRefsDeleteStep ==
    /\ call'.op = "ObjRefs.Delete"
    /\ nextContentID' = nextContentID /\ nextObjectID' = nextObjectID
    /\ ~(objrefs \subseteq objrefs' /\ objrefs' # objrefs)

\* C16: the frame of unlinkAll. ObjRefs().WithPinID(c).Delete() removes every
\* ObjRef whose pin is c and no other ObjRef (none at all when the engine
\* fails the statement), and it deletes no Object and no Content, so that an
\* Object two ObjRefs name is still there when one of them is gone.
C16_UnlinkAllFrame ==
    [][ObjRefsDeleteStep =>
          /\ objrefs' = IF res'.Error = nil THEN {r \in objrefs : r.pin # call'.pin}
                        ELSE objrefs
          /\ objects' = objects
          /\ contents' = contents]_vars

\* one Object, named by the ObjRefs of two Content items: the ObjRef of one of
\* them was deleted, the other ObjRef and the Object remain
C16_Witness ==
    /\ call.op = "ObjRefs.Delete" /\ res.Error = nil /\ res.RowsAffected = 1
    /\ Cardinality(objects) = 1
    /\ Cardinality(objrefs) = 1
    /\ \A r \in objrefs : r.pin # call.pin /\ \E o \in objects : o.id = r.object

(***************************************************************************)
(* QUERIES: one builder over tables that hold an aggregate and Content     *)
(* items of two kinds, created early or late.                              *)
(***************************************************************************)
\* the two addresses the rows and the filters use
QueryCid(k) == CHOOSE c \in DbCids : c.digest[2] = k

\* the aggregate, row 1 of every table
QueryAggregate ==
    [id |-> 1, createdAt |-> 0, cid |-> <<>>, userID |-> 1, active |-> TRUE,
     aggregate |-> TRUE, aggregatedIn |-> 0]

\* a row that is part of the aggregate, and one that is not
QueryRow(id, kind, t) ==
    IF kind = "child"
    THEN [id |-> id, createdAt |-> t, cid |-> cidToBytes(QueryCid(0)), userID |-> 1,
          active |-> FALSE, aggregate |-> FALSE, aggregatedIn |-> 1]
    ELSE [id |-> id, createdAt |-> t, cid |-> cidToBytes(QueryCid(1)), userID |-> 2,
          active |-> TRUE, aggregate |-> FALSE, aggregatedIn |-> 0]

QueryTables ==
    {{QueryAggregate} \cup {QueryRow(i, kind[i], t[i]) : i \in 2 .. MaxRows} :
        kind \in [2 .. MaxRows -> {"child", "other"}], t \in [2 .. MaxRows -> {0, MaxClock}]}

\* the state around a contents table that is filled already
FilledInit ==
    /\ nextContentID = MaxRows + 1
    /\ now = MaxClock
    /\ OtherTablesInit /\ SweepIdle /\ IngestIdle /\ CodecIdle /\ BuildersIdle

QueryInit == contents \in QueryTables /\ FilledInit

FilterMethods ==
    {[m |-> "WithID", arg |-> 2], [m |-> "WithUserID", arg |-> 1],
     [m |-> "WithActive", arg |-> TRUE], [m |-> "WithActive", arg |-> FALSE],
     [m |-> "WithCid", arg |-> QueryCid(0)],
     [m |-> "WithCids", arg |-> <<QueryCid(0), QueryCid(1)>>],
     [m |-> "WithAggregate", arg |-> TRUE], [m |-> "WithAggregate", arg |-> FALSE],
     [m |-> "WithAggregatedIn", arg |-> 1]}

SortMethods ==
    {[m |-> "OrderByCreationDate", arg |-> OrderAscending],
     [m |-> "OrderByCreationDate", arg |-> OrderDescending],
     [m |-> "OrderByID", arg |-> OrderDescending]}

QueryNext ==
    \/ MgrContents("first")
    \/ \E f \in FilterMethods \cup SortMethods : Chain("first", f)
    \/ \E ok \in BOOLEAN : BuilderGetAll("first", ok)
    \/ \E ok \in BOOLEAN : BuilderCount("first", ok)
    \/ \E ok \in BOOLEAN : BuilderGet("first", ok)

SpecQuery == QueryInit /\ [][QueryNext]_vars

\* what a filter method asks of a row
Satisfies(r, f) ==
    CASE f.m = "WithID" -> r.id = f.arg
      [] f.m = "WithActive" -> r.active = f.arg
      [] f.m = "WithUserID" -> r.userID = f.arg
      [] f.m = "WithCid" -> r.cid = Bytes(f.arg)
      [] f.m = "WithCids" -> \E i \in DOMAIN f.arg : r.cid = Bytes(f.arg[i])
      [] f.m = "WithAggregate" -> r.aggregate = f.arg
      [] f.m = "WithAggregatedIn" -> r.aggregatedIn = f.arg
      [] OTHER -> TRUE

\* the rows that satisfy every method declared on the first builder
Selected == {r \in contents : \A i \in DOMAIN slots["first"].declared :
                                  Satisfies(r, slots["first"].declared[i])}

\* the first builder's terminal method has returned and the engine ran it
Answered(op) == slots["first"].pc = "done" /\ call.op = op /\ res.Error \in {nil, ErrRecordNotFound}

\* C15: filters are conjunctive. A terminal method called after the filters
\* f1..fn selects exactly the rows that satisfy every one of them: GetAll
\* returns each of these rows once, Count their number, Get one of them (or
\* NotFound when there is none). The rows are those of the set of filters
\* declared, whatever the order of the declarations.
C15_FiltersConjunctive ==
    /\ Answered("Contents.GetAll") =>
         /\ {ret.val[i] : i \in DOMAIN ret.val} = Selected
         /\ Len(ret.val) = Cardinality(Selected)
    /\ Answered("Contents.Count") => ret.val = Cardinality(Selected)
    /\ Answered("Contents.Get") =>
         IF Selected = {} THEN ret.err = ErrRecordNotFound
         ELSE ret.err = nil /\ ret.val[1] \in Selected

\* GetAll after two filters returned a row; each filter alone selects a row
\* the other one refuses
C15_Witness ==
    /\ Answered("Contents.GetAll")
    /\ ret.val # <<>>
    /\ Len(slots["first"].declared) = 2
    /\ \E r \in contents : /\ Satisfies(r, slots["first"].declared[1])
                           /\ ~Satisfies(r, slots["first"].declared[2])
    /\ \E r \in contents : /\ ~Satisfies(r, slots["first"].declared[1])
                           /\ Satisfies(r, slots["first"].declared[2])

\* the builder is Contents().WithAggregatedIn(1).OrderByCreationDate(order)
ChildrenQuery(order) ==
    slots["first"].declared = <<[m |-> "WithAggregatedIn", arg |-> 1],
                                [m |-> "OrderByCreationDate", arg |-> order]>>

\* C17: the children of an aggregate. GetAll on
\* Contents().WithAggregatedIn(A.id).OrderByCreationDate(OrderAscending)
\* returns exactly the Contents whose aggregatedIn is A.id, each once, in
\* non-decreasing creation time; with OrderDescending the same rows in
\* non-increasing creation time.
C17_ChildrenOfAggregate ==
    \A order \in {OrderAscending, OrderDescending} :
        (Answered("Contents.GetAll") /\ ChildrenQuery(order)) =>
            /\ {ret.val[i] : i \in DOMAIN ret.val} = {c \in contents : c.aggregatedIn = 1}
            /\ \A i, j \in DOMAIN ret.val : i < j =>
                  /\ ret.val[i] # ret.val[j]
                  /\ IF order = OrderAscending
                     THEN ret.val[i].createdAt <= ret.val[j].createdAt
                     ELSE ret.val[i].createdAt >= ret.val[j].createdAt

\* the ascending query returned two children, the one with the larger id first
C17_Witness ==
    /\ Answered("Contents.GetAll") /\ ChildrenQuery(OrderAscending)
    /\ Len(ret.val) = 2
    /\ ret.val[1].id > ret.val[2].id
    /\ ret.val[1].createdAt < ret.val[2].createdAt

(***************************************************************************)
(* ISOLATION: two callers hold a builder each, obtained by two calls of    *)
(* mgr.Contents(), and call their methods in any interleaving.             *)
(***************************************************************************)
\* the methods each of the two callers chains
IsolationMethods(b) ==
    IF b = "first"
    THEN {[m |-> "WithID", arg |-> 2], [m |-> "Limit", arg |-> 1]}
    ELSE {[m |-> "WithUserID", arg |-> 1], [m |-> "OrderByID", arg |-> OrderDescending]}

IsolationNext ==
    \/ \E b \in Builders : MgrContents(b)
    \/ \E b \in Builders : \E f \in IsolationMethods(b) : Chain(b, f)
    \/ \E b \in Builders, ok \in BOOLEAN : BuilderGetAll(b, ok)
    \/ \E b \in Builders, ok \in BOOLEAN : BuilderCount(b, ok)

\* the tables whose rows were all created at time 0
IsolationInit ==
    /\ contents \in {t \in QueryTables : \A r \in t : r.createdAt = 0}
    /\ FilledInit

SpecIsolation == IsolationInit /\ [][IsolationNext]_vars

\* the statement of a builder on which the methods fs were called, in this
\* order, since NewContentsQuery made it
RECURSIVE ApplyAll(_)
ApplyAll(fs) ==
    IF fs = <<>> THEN NewContentsQuery
    ELSE Apply(fs[Len(fs)], ApplyAll(SubSeq(fs, 1, Len(fs) - 1)))

\* the step in which the terminal method of builder b runs
TerminalStep(b) == slots[b].pc = "built" /\ slots'[b].pc = "done"

\* C19: builders are isolated. The statement a terminal method of a builder
\* sends is made of the filters, ordering and paging declared on this very
\* builder and of nothing declared on a builder that another call of
\* mgr.Contents() returned, however the calls of the two are interleaved; the
\* rows GetAll returns are rows this statement selects. The base handle of the
\* DBMgr never holds a condition, an ordering or paging.
C19_BuildersIsolated ==
    [][/\ stmt'[BaseHandle] = NewQuery
       /\ \A b \in Builders :
             TerminalStep(b) =>
                 /\ call'.q = ApplyAll(slots[b].declared)
                 /\ (call'.op = "Contents.GetAll" /\ res'.Error = nil) =>
                        ret'.val \in Find(ApplyAll(slots[b].declared), contents)]_vars

\* GetAll of the first builder returned rows for its own filter while the
\* second builder holds declarations of its own
C19_Witness ==
    /\ slots["first"].pc = "done" /\ slots["second"].pc = "built"
    /\ slots["first"].declared # <<>> /\ slots["second"].declared # <<>>
    /\ call.op = "Contents.GetAll" /\ res.Error = nil /\ ret.val # <<>>
    /\ call.q = ApplyAll(slots["first"].declared)
    /\ stmt[slots["second"].h] = ApplyAll(slots["second"].declared)
    /\ stmt[slots["second"].h] # call.q

(***************************************************************************)
(* USERS                                                                   *)
(***************************************************************************)
Usernames == {"alice", "bob"}

\* the builders Users().WithUsername(..) and/or .WithID(..) give
UsersBuilders ==
    LET byName == {UsersWithUsername(NewUsersQuery, n) : n \in Usernames}
        byID == {UsersWithID(NewUsersQuery, i) : i \in 1 .. MaxUsers}
    IN  byName \cup byID \cup {UsersWithID(q, i) : q \in byName, i \in 1 .. MaxUsers}

\* UsersQuery.Create
UsersCreate(username, ok) ==
    /\ nextUserID <= MaxUsers
    /\ users' = IF ok THEN users \cup {[id |-> nextUserID, username |-> username]} ELSE users
    /\ nextUserID' = IF ok THEN nextUserID + 1 ELSE nextUserID
    /\ call' = [op |-> "Users.Create", q |-> NewUsersQuery, inUse |-> FALSE]
    /\ res' = [Error |-> EngineErr(ok), RowsAffected |-> IF ok THEN 1 ELSE 0]
    /\ ret' = [err |-> res'.Error]
    /\ UNCHANGED <<tableVars, dealVars, bootVars, sweepVars, ingest, codecVars, builderVars>>

\* UsersQuery.Count
UsersCount(q) == Cardinality(Rows(q, users))

\* UsersQuery.Exists = Count() > 0
UsersExists(q, ok) ==
    /\ call' = [op |-> "Users.Exists", q |-> q, inUse |-> FALSE]
    /\ res' = [Error |-> EngineErr(ok), RowsAffected |-> 0]
    /\ ret' = IF res'.Error # nil THEN [val |-> FALSE, err |-> res'.Error]
              ELSE [val |-> UsersCount(q) > 0, err |-> nil]
    /\ UNCHANGED <<tableVars, dealVars, userVars, bootVars, sweepVars, ingest, codecVars,
                   builderVars>>

\* an ExpectDelete that reports like a plain Delete
ExpectDeleteErrAsDelete(r) == r.Error

\* what ExpectDelete makes of the result of its DELETE
ExpectDeleteErr(r) ==
    IF r.Error # nil THEN r.Error
    ELSE IF r.RowsAffected = 0 THEN ErrRecordNotFound
    ELSE nil

\* UsersQuery.ExpectDelete on a builder with conditions; a deleted User is no
\* longer a row any query sees
UsersExpectDelete(q, ok) ==
    /\ LET gone == IF ok THEN Rows(q, users) ELSE {}
       IN  /\ users' = users \ gone
           /\ res' = [Error |-> EngineErr(ok), RowsAffected |-> Cardinality(gone)]
    /\ call' = [op |-> "Users.ExpectDelete", q |-> q, inUse |-> FALSE]
    /\ ret' = [err |-> ExpectDeleteErr(res')]
    /\ UNCHANGED <<nextUserID, tableVars, dealVars, bootVars, sweepVars, ingest, codecVars,
                   builderVars>>

UsersNext ==
    \/ \E n \in Usernames, ok \in BOOLEAN : UsersCreate(n, ok)
    \/ \E q \in UsersBuilders, ok \in BOOLEAN : UsersExists(q, ok)
    \/ \E q \in UsersBuilders, ok \in BOOLEAN : UsersExpectDelete(q, ok)

SpecUsers == Init /\ [][UsersNext]_vars

\* C7: ExpectDelete on a builder whose conditions match no row returns
\* NotFound and changes no row; when they match one or more rows it returns
\* nil and removes exactly those rows. An error of the storage engine is
\* returned as it is, with no row changed.
C7_ExpectDelete ==
    [][call'.op = "Users.ExpectDelete" =>
         LET matched == {u \in users : \A i \in DOMAIN call'.q.where :
                                          u[call'.q.where[i].col] = call'.q.where[i].val}
         IN  IF res'.Error # nil THEN ret'.err = res'.Error /\ users' = users
             ELSE IF matched = {} THEN ret'.err = ErrRecordNotFound /\ users' = users
             ELSE ret'.err = nil /\ users' = users \ matched]_vars

\* an ExpectDelete removed two rows, left another one and returned nil
C7_Witness ==
    /\ call.op = "Users.ExpectDelete"
    /\ ret.err = nil
    /\ res.RowsAffected = 2
    /\ users # {}

(***************************************************************************)
(* BOOTSTRAP: NewDBMgr counts the miner registry and, when it is empty,    *)
(* inserts the default miners one by one.                                  *)
(***************************************************************************)
ErrConfiguration == "ConfigurationError"

defaultMiners == [i \in 1 .. NumDefaultMiners |-> i]

\* NewDBMgr up to the migrations: a malformed dbval or a failed Open returns
BootOpen(b, ok) ==
    /\ boot[b].pc = "idle"
    /\ boot' = [boot EXCEPT ![b] = IF ok THEN [@ EXCEPT !.pc = "count"]
                                   ELSE [@ EXCEPT !.pc = "done", !.err = ErrConfiguration]]
    /\ UNCHANGED <<tableVars, dealVars, callVars, userVars, miners, sweepVars, ingest,
                   codecVars, builderVars>>

\* db.Model(&storageMiner{}).Count(&count); if count == 0 the seeding starts
BootCount(b, ok) ==
    /\ boot[b].pc = "count"
    /\ boot' = [boot EXCEPT ![b] =
                  IF ~ok THEN [@ EXCEPT !.pc = "done", !.err = ErrEngine]
                  ELSE IF Len(miners) = 0 /\ Len(defaultMiners) > 0
                       THEN [@ EXCEPT !.pc = "seed", !.count = 0, !.i = 1]
                       ELSE [@ EXCEPT !.pc = "done", !.count = Len(miners)]]
    /\ UNCHANGED <<tableVars, dealVars, callVars, userVars, miners, sweepVars, ingest,
                   codecVars, builderVars>>

\* db.Create(&storageMiner{...}) for the next default miner; its result is not read
BootSeed(b, ok) ==
    /\ boot[b].pc = "seed"
    /\ miners' = IF ok THEN Append(miners, defaultMiners[boot[b].i]) ELSE miners
    /\ boot' = [boot EXCEPT ![b] = IF boot[b].i = Len(defaultMiners)
                                   THEN [@ EXCEPT !.pc = "done"]
                                   ELSE [@ EXCEPT !.i = boot[b].i + 1]]
    /\ UNCHANGED <<tableVars, dealVars, callVars, userVars, sweepVars, ingest, codecVars,
                   builderVars>>

\* the runs of SpecBoot follow one another
NoBootRunning == \A b \in Boots : boot[b].pc \in {"idle", "done"}

\* a run that starts when no other run is under way
BootOpenInTurn(b, ok) == NoBootRunning /\ BootOpen(b, ok)

BootNext ==
    \/ \E b \in Boots, ok \in BOOLEAN : BootOpenInTurn(b, ok)
    \/ \E b \in Boots, ok \in BOOLEAN : BootCount(b, ok)
    \/ \E b \in Boots, ok \in BOOLEAN : BootSeed(b, ok)

SpecBoot == Init /\ [][BootNext]_vars

\* C9: seeding is idempotent. Once a run of NewDBMgr that found the registry
\* empty has returned successfully the registry holds as many rows as the
\* default list; a run that found it non-empty leaves the count as it found it.
C9_SeedingIdempotent ==
    \A b \in Boots :
        (boot[b].pc = "done" /\ boot[b].err = nil) =>
            IF boot[b].count = 0 THEN Len(miners) = Len(defaultMiners)
            ELSE Len(miners) = boot[b].count

\* runs of NewDBMgr started by several processes against one registry: the
\* statements of one run are interleaved with those of the others
BootRaceNext ==
    \/ \E b \in Boots, ok \in BOOLEAN : BootOpen(b, ok)
    \/ \E b \in Boots, ok \in BOOLEAN : BootCount(b, ok)
    \/ \E b \in Boots, ok \in BOOLEAN : BootSeed(b, ok)

SpecBootRace == Init /\ [][BootRaceNext]_vars

\* the number of rows of the registry that hold the address m
MinerRows(m) == Cardinality({k \in DOMAIN miners : miners[k] = m})

\* C18: concurrent runs of NewDBMgr on an empty registry. When all the runs
\* have returned successfully, the registry holds exactly one row for each
\* default miner, however their statements were interleaved.
C18_ConcurrentSeeding ==
    (\A b \in Boots : boot[b].pc = "done" /\ boot[b].err = nil) =>
        \A i \in DOMAIN defaultMiners : MinerRows(defaultMiners[i]) = 1

\* every run counted an empty registry before any of them inserted, and
\* every insert was accepted: each default miner is there once per run
C18_SeededTwice ==
    /\ \A b \in Boots : boot[b].pc = "done" /\ boot[b].err = nil /\ boot[b].count = 0
    /\ \A i \in DOMAIN defaultMiners : MinerRows(defaultMiners[i]) = NumBoots

(***************************************************************************)
(* The codec on its own.                                                   *)
(***************************************************************************)
CodecInit ==
    /\ TablesInit /\ SweepIdle /\ IngestIdle /\ BuildersIdle
    /\ codecSrc = None
    /\ codecBuf \in ByteSeqs
    /\ codecOut = None
    /\ BatchIdle

\* a caller stores an identifier into a column that is still empty:
\* column := cidToBytes(x)
Encode(x) ==
    /\ codecSrc = None /\ codecBuf = <<>> /\ codecOut = None
    /\ codecSrc' = Some(x)
    /\ codecBuf' = cidToBytes(x)
    /\ codecOut' = None
    /\ UNCHANGED <<batchVars, tableVars, dealVars, callVars, userVars, bootVars, sweepVars,
                   ingest, builderVars>>

\* a caller reads the column back: bytesToCid(column)
Decode ==
    /\ codecOut = None
    /\ codecOut' = Some(bytesToCid(codecBuf))
    /\ UNCHANGED <<codecSrc, codecBuf, batchVars, tableVars, dealVars, callVars, userVars,
                   bootVars, sweepVars, ingest, builderVars>>

CodecNext ==
    \/ \E x \in ValidCids \cup {Undef} : Encode(x)
    \/ Decode

SpecCodec == CodecInit /\ [][CodecNext]_vars

\* the byte strings that are the binary form of no identifier
Malformed(bytes) == bytes # <<>> /\ ~\E x \in ValidCids : Bytes(x) = bytes

\* C10: the codec round trip. bytesToCid(cidToBytes(x)) is x with no error for
\* every valid identifier x; bytesToCid of no bytes is Undef with no error;
\* bytesToCid of malformed bytes is an error together with Undef.
C10_CodecRoundTrip ==
    codecOut # None =>
        /\ (codecSrc # None /\ codecSrc[1] \in ValidCids) =>
              codecOut[1] = [cid |-> codecSrc[1], err |-> nil]
        /\ codecBuf = <<>> => codecOut[1] = [cid |-> Undef, err |-> nil]
        /\ Malformed(codecBuf) => codecOut[1].err # nil /\ codecOut[1].cid = Undef

\* a CIDv1 with a digest went through cidToBytes and bytesToCid
C10_Witness ==
    /\ codecSrc # None /\ codecOut # None
    /\ codecSrc[1] \in CidsV1 /\ codecSrc[1].digest # <<>>
    /\ codecOut[1].err = nil

(***************************************************************************)
(* The batch codec on its own.                                             *)
(***************************************************************************)
\* the identifiers of a batch: the callers' addresses, a CIDv1 and Undef
BatchCids == DbCids \cup {Undef, [version |-> 1, codec |-> 0, mhcode |-> 0, digest |-> <<>>]}

\* the byte columns of a batch: the binary forms of these identifiers and,
\* for each, the same bytes without the last one
BatchBytes ==
    LET good == {cidToBytes(c) : c \in BatchCids}
    IN  good \cup {SubSeq(b, 1, Len(b) - 1) : b \in good \ {<<>>}}

ListsOf(S) == UNION {[1 .. n -> S] : n \in 0 .. MaxBatch}

BatchInit ==
    /\ TablesInit /\ SweepIdle /\ IngestIdle /\ BuildersIdle
    /\ codecSrc = None /\ codecBuf = <<>> /\ codecOut = None
    /\ batchSrc = None
    /\ batchBuf \in ListsOf(BatchBytes)
    /\ batchOut = None

\* a caller stores a list of identifiers: columns := cidsToBytes(xs)
EncodeAll(xs) ==
    /\ batchSrc = None /\ batchBuf = <<>> /\ batchOut = None
    /\ batchSrc' = Some(xs)
    /\ batchBuf' = cidsToBytes(xs)
    /\ batchOut' = None
    /\ UNCHANGED <<codecSrc, codecBuf, codecOut, tableVars, dealVars, callVars, userVars,
                   bootVars, sweepVars, ingest, builderVars>>

\* a caller reads the columns back: bytesToCids(columns)
DecodeAll ==
    /\ batchOut = None
    /\ batchOut' = Some(bytesToCids(batchBuf))
    /\ UNCHANGED <<batchSrc, batchBuf, codecSrc, codecBuf, codecOut, tableVars, dealVars,
                   callVars, userVars, bootVars, sweepVars, ingest, builderVars>>

BatchNext ==
    \/ \E xs \in ListsOf(BatchCids) : EncodeAll(xs)
    \/ DecodeAll

SpecBatch == BatchInit /\ [][BatchNext]_vars

\* C11: the batch codec. cidsToBytes returns a list as long as its input whose
\* i-th element is cidToBytes of the i-th identifier. bytesToCids of a list
\* without a malformed element returns, with no error, a list as long as its
\* input whose i-th element is bytesToCid of the i-th column; of a list with a
\* malformed element at any position it returns an error and no identifier.
C11_BatchCodec ==
    /\ batchSrc # None =>
         /\ Len(batchBuf) = Len(batchSrc[1])
         /\ \A i \in DOMAIN batchBuf : batchBuf[i] = cidToBytes(batchSrc[1][i])
    /\ batchOut # None =>
         IF \E i \in DOMAIN batchBuf : Malformed(batchBuf[i])
         THEN batchOut[1].err # nil /\ batchOut[1].cids = <<>>
         ELSE /\ batchOut[1].err = nil
              /\ Len(batchOut[1].cids) = Len(batchBuf)
              /\ \A i \in DOMAIN batchBuf : batchOut[1].cids[i] = bytesToCid(batchBuf[i]).cid

\* bytesToCids met a malformed last element after two it had decoded
C11_Witness ==
    /\ batchOut # None
    /\ Len(batchBuf) = 3
    /\ ~Malformed(batchBuf[1]) /\ ~Malformed(batchBuf[2]) /\ Malformed(batchBuf[3])
    /\ batchOut[1].err # nil

=============================================================================
